---- MODULE Spec2Model ----
(***************************************************************************)
(* Model of the artifact inventory engine of the boom plugin               *)
(* (src/Artifact/artifactCore.py, src/Artifact/artifact_data.py) and of    *)
(* its gold ledger and stock commands (src/plugin.py).                     *)
(*                                                                         *)
(* artifact_data is the process-wide dict of the loaded collection; a      *)
(* Python dict keeps insertion order, so it is a sequence of artifacts     *)
(* with pairwise distinct artifact_id.  The user ledger (core/user_data)   *)
(* is not part of the sources; it is modelled as three counters that each  *)
(* adjust call changes by its delta.                                       *)
(*                                                                         *)
(* boom_data is the content of boom_data.json: uid -> gold, holdings and   *)
(* the date and streak of the last check-in.                               *)
(* stock_data is the content of the stock module's data file: symbol ->    *)
(* price and weight, both held in hundredths.  trades is the log of the    *)
(* stock commands executed so far, each with the values its reply shows.   *)
(* today is the current date as a day number and pending the number of     *)
(* first check-ins of a uid that have replied and not yet registered it.    *)
(* files is the artifact file of each person and session the place each    *)
(* person has reached in its load / operate / save sequence.  job is the   *)
(* job of SimpleScheduler.add_job with the place its runner has reached.   *)
(***************************************************************************)
EXTENDS Integers, Sequences, FiniteSets, TLC

VARIABLES artifact_data, coins, upgrade_items, re_roll_items, last, ops,
          boom_data, stock_data, trades, today, pending, files, session,
          job

artifact_vars ==
    <<artifact_data, coins, upgrade_items, re_roll_items, last, ops>>

stock_vars == <<boom_data, stock_data, trades>>

day_vars == <<today, pending>>

file_vars == <<files, session>>

job_vars == <<job>>

vars == <<artifact_data, coins, upgrade_items, re_roll_items, last, ops,
          boom_data, stock_data, trades, today, pending, files, session,
          job>>

(* ------------------------------ bounds --------------------------------- *)
\* number of calls explored from an initial state
MaxOps == 2
\* ids are drawn from 1..MaxArtifactId (the code draws from 1..99999)
MaxArtifactId == 21
\* highest level an enhancement is explored to
MaxLevel == 5
\* levels the yield function is tabulated for
YieldLevels == 31

(* ------------------------- program constants --------------------------- *)
\* len(artifact_data) >= 20
StorageCap == 20
\* draw_cost = 100
draw_cost == 100

None == 0

\* the five rarities of generate_random_artifact, in the order of the
\* source: "⚪普通", "🌿罕见", "🔶稀有", "💎史诗", "👑传说"
Rarities == <<"Common", "Uncommon", "Rare", "Epic", "Legendary">>

RaritySet == {Rarities[i] : i \in 1..Len(Rarities)}

(* --------------------------- artifact_data.py --------------------------- *)
\* an artifact built at level 0
Artifact_level_zero(artifact_id, rarity) ==
    [artifact_id |-> artifact_id, level |-> 0, rarity |-> rarity,
     is_locked |-> FALSE]

\* Artifact.__init__: level 1, unlocked
Artifact(artifact_id, rarity) ==
    [artifact_id |-> artifact_id, level |-> 1, rarity |-> rarity,
     is_locked |-> FALSE]

Ids(arts) == {arts[i].artifact_id : i \in 1..Len(arts)}

IndexOf(arts, artifact_id) ==
    CHOOSE i \in 1..Len(arts) : arts[i].artifact_id = artifact_id

\* artifact_data.get(artifact_id): the artifact, or None
get_artifact_by_id(arts, artifact_id) ==
    IF artifact_id \in Ids(arts) THEN arts[IndexOf(arts, artifact_id)]
    ELSE None

\* artifact_data[artifact.artifact_id] = artifact: an existing key keeps its
\* place in the dict, a new key is appended
add_new_artifact(arts, artifact) ==
    IF artifact.artifact_id \in Ids(arts)
    THEN [arts EXCEPT ![IndexOf(arts, artifact.artifact_id)] = artifact]
    ELSE Append(arts, artifact)

update_artifact(arts, artifact) ==
    IF artifact.artifact_id \in Ids(arts)
    THEN [arts EXCEPT ![IndexOf(arts, artifact.artifact_id)] = artifact]
    ELSE arts

delete_artifact_first(arts, artifact_id) ==
    IF artifact_id \in Ids(arts) THEN Tail(arts) ELSE arts

delete_artifact(arts, artifact_id) ==
    SelectSeq(arts, LAMBDA a : a.artifact_id # artifact_id)

is_artifact_storage_full_off_by_one(arts) == Len(arts) > StorageCap

is_artifact_storage_full(arts) == Len(arts) >= StorageCap

\* the flag of the artifact is flipped, whatever the call asks for
set_locked_toggle(arts, artifact_id, flag) ==
    IF artifact_id \in Ids(arts)
    THEN [arts EXCEPT ![IndexOf(arts, artifact_id)].is_locked = ~@]
    ELSE arts

set_locked(arts, artifact_id, flag) ==
    IF artifact_id \in Ids(arts)
    THEN [arts EXCEPT ![IndexOf(arts, artifact_id)].is_locked = flag]
    ELSE arts

(* ---------------------------- artifactCore.py --------------------------- *)
\* rarity_to_items.get(artifact.rarity, 0)
rarity_to_items(rarity) ==
    CASE rarity = "Common" -> 1
      [] rarity = "Uncommon" -> 5
      [] rarity = "Rare" -> 20
      [] rarity = "Epic" -> 50
      [] rarity = "Legendary" -> 100
      [] OTHER -> 0

get_reinforcement_items_no_level_offset(artifact) ==
    rarity_to_items(artifact.rarity)
        + ((rarity_to_items(artifact.rarity) * artifact.level) \div 10)

\* base_items + int(base_items * 0.1 * (level - 1)); the product is never
\* negative, so int() is the floor of base_items * (level - 1) tenths
get_reinforcement_items_from_disassembly(artifact) ==
    rarity_to_items(artifact.rarity)
        + ((rarity_to_items(artifact.rarity) * (artifact.level - 1)) \div 10)


\* lines 23-28: the scan for the lowest-level unlocked artifact, in dict
\* order; lowest_id = None stands for lowest_level = float('inf')
RECURSIVE scan_lowest(_, _, _, _)
scan_lowest(arts, i, lowest_level, lowest_id) ==
    IF i > Len(arts) THEN lowest_id
    ELSE IF ~arts[i].is_locked
            /\ (lowest_id = None \/ arts[i].level < lowest_level)
         THEN scan_lowest(arts, i + 1, arts[i].level, arts[i].artifact_id)
         ELSE scan_lowest(arts, i + 1, lowest_level, lowest_id)

RECURSIVE scan_lowest_ignoring_lock(_, _, _, _)
scan_lowest_ignoring_lock(arts, i, lowest_level, lowest_id) ==
    IF i > Len(arts) THEN lowest_id
    ELSE IF lowest_id = None \/ arts[i].level < lowest_level
         THEN scan_lowest_ignoring_lock(arts, i + 1, arts[i].level,
                                        arts[i].artifact_id)
         ELSE scan_lowest_ignoring_lock(arts, i + 1, lowest_level, lowest_id)

RECURSIVE scan_first_unlocked(_, _, _, _)
scan_first_unlocked(arts, i, lowest_level, lowest_id) ==
    IF i > Len(arts) THEN lowest_id
    ELSE IF ~arts[i].is_locked /\ lowest_id = None
         THEN scan_first_unlocked(arts, i + 1, arts[i].level,
                                  arts[i].artifact_id)
         ELSE scan_first_unlocked(arts, i + 1, lowest_level, lowest_id)

lowest_level_artifact_id_any(arts) ==
    scan_lowest_ignoring_lock(arts, 1, None, None)

lowest_level_artifact_id_first(arts) ==
    scan_first_unlocked(arts, 1, None, None)

lowest_level_artifact_id(arts) == scan_lowest(arts, 1, None, None)

\* user_data.add_artifact_upgrade_items / add_artifact_re_roll_items /
\* update_user_coins: the ledger entry changes by the delta
ledger_add(balance, delta) == balance + delta

add_new_artifact_to_user_store_anyway(arts, items, artifact) ==
    [arts  |-> add_new_artifact(arts, artifact),
     items |-> ledger_add(items,
                          get_reinforcement_items_from_disassembly(artifact))]

\* add_new_artifact_to_user: the collection and the enhancement-item ledger
\* after the call
add_new_artifact_to_user(arts, items, artifact) ==
    IF is_artifact_storage_full(arts)
    THEN IF lowest_level_artifact_id(arts) # None
         THEN [arts  |-> add_new_artifact(
                            delete_artifact(arts,
                                            lowest_level_artifact_id(arts)),
                            artifact),
               items |-> items]
         ELSE [arts  |-> arts,
               items |-> ledger_add(items,
                            get_reinforcement_items_from_disassembly(artifact))]
    ELSE [arts  |-> add_new_artifact(arts, artifact),
          items |-> items]

\* rarity_roll thresholds of generate_random_artifact (lines 165-175)
rarity_of_roll(rarity_roll) ==
    IF rarity_roll <= 50 THEN "Common"
    ELSE IF rarity_roll <= 80 THEN "Uncommon"
    ELSE IF rarity_roll <= 95 THEN "Rare"
    ELSE IF rarity_roll <= 99 THEN "Epic"
    ELSE "Legendary"

\* the first id drawn is taken without the membership test
fresh_ids_unchecked(arts) == 1..MaxArtifactId

\* the ids the loop of lines 178-181 can leave with
fresh_ids(arts) == (1..MaxArtifactId) \ Ids(arts)

(* ------------------------------ inputs --------------------------------- *)
\* ids the user names in a command: two of the stored artifacts and the
\* highest id, which is stored only once it has been generated
TargetIds == {2, 3, MaxArtifactId}

\* random.randint(1, 100) of the draw: both ends of every bucket
Rolls == {1, 5, 6, 15, 16, 35, 36, 100}

\* random.randint(1, 100) of the rarity: a Common, a Rare and a Legendary roll
RarityRolls == {50, 95, 100}

\* random.randint(1, 3)
ItemRewards == 1..3

\* random.randint(1, 120): both ends
CoinRewards == {1, 120}

\* item counts a caller passes to enhance_artifact besides the ledger's own
SuppliedItems == {4}

InitSizes == {StorageCap - 1, StorageCap}

InitCoins == {350}

InitItems == {10}

InitLevel(i) == 1 + (i % 3)

InitRarity(i) == Rarities[1 + (i % 5)]

\* all artifacts locked, none locked, or exactly the level-1 artifacts locked
InitLocks == {"all", "none", "low"}

InitLocked(i, locks) ==
    CASE locks = "all" -> TRUE
      [] locks = "none" -> FALSE
      [] locks = "low" -> InitLevel(i) = 1

InitCollection(n, locks) ==
    [i \in 1..n |-> [artifact_id |-> i, level |-> InitLevel(i),
                     rarity |-> InitRarity(i),
                     is_locked |-> InitLocked(i, locks)]]

\* the last call and what it returned: the id it was given or generated, the
\* rarity of a generated artifact, the success flag, the kind of message and
\* the amount the message states; roll is the random.randint(1, 100) of a
\* draw that got past the funds check (0 otherwise)
Result(op, artifact_id, rarity, success, msg, amount) ==
    [op |-> op, artifact_id |-> artifact_id, rarity |-> rarity,
     success |-> success, msg |-> msg, amount |-> amount, roll |-> 0]

DrawResult(roll, artifact_id, rarity, msg, amount) ==
    [Result("draw", artifact_id, rarity, TRUE, msg, amount)
        EXCEPT !.roll = roll]

\* line 193: user_coins < draw_cost
insufficient_coins_nonpositive(user_coins) == user_coins <= 0

insufficient_coins(user_coins) == user_coins < draw_cost

draw_bucket_documented(roll) ==
    IF roll <= 2 THEN "ArtifactFound"
    ELSE IF roll <= 10 THEN "ReRollItem"
    ELSE IF roll <= 30 THEN "UpgradeItems"
    ELSE "Coins"

\* lines 200-215: the if / elif chain over roll
draw_bucket(roll) ==
    IF roll <= 5 THEN "ArtifactFound"
    ELSE IF roll <= 15 THEN "ReRollItem"
    ELSE IF roll <= 35 THEN "UpgradeItems"
    ELSE "Coins"

\* user_data.get_user_by_id: the ledger of a registered user, None otherwise
RegisteredUsers == {"user"}

UserIds == {"user", "stranger"}

get_user_by_id(userId) == userId \in RegisteredUsers

(* ------------------------------- state --------------------------------- *)
\* the first day, no check-in is under way
DayIdle ==
    /\ today = 1
    /\ pending = [uid \in {} |-> 0]

\* no artifact file is in use
FilesIdle ==
    /\ files = [person \in {} |-> <<>>]
    /\ session = [person \in {} |-> 0]

\* add_job was not called: there is no job and no runner
JobIdle ==
    job = [pc |-> "none", cancel |-> FALSE, result |-> "",
           after_failure |-> FALSE]

\* no user is registered, no symbol is listed and no trade was made
StockIdle ==
    /\ boom_data = [uid \in {} |-> 0]
    /\ stock_data = [symbol \in {} |-> 0]
    /\ trades = <<>>

Init ==
    /\ \E n \in InitSizes, locks \in InitLocks :
          artifact_data = InitCollection(n, locks)
    /\ coins \in InitCoins
    /\ upgrade_items \in InitItems
    /\ re_roll_items = 0
    /\ last = Result("init", None, "", TRUE, "", 0)
    /\ ops = 0
    /\ StockIdle
    /\ DayIdle
    /\ FilesIdle
    /\ JobIdle

\* generate_random_artifact(userId): returns the artifact it built, whatever
\* add_new_artifact_to_user did with it
GenerateArtifact(rarity_roll, artifact_id) ==
    /\ ops < MaxOps
    /\ artifact_id \in fresh_ids(artifact_data)
    /\ LET r == add_new_artifact_to_user(artifact_data, upgrade_items,
                    Artifact(artifact_id, rarity_of_roll(rarity_roll)))
       IN /\ artifact_data' = r.arts
          /\ upgrade_items' = r.items
          /\ last' = Result("generate", artifact_id,
                            rarity_of_roll(rarity_roll), TRUE, "", 0)
    /\ ops' = ops + 1
    /\ UNCHANGED <<coins, re_roll_items>>
    /\ UNCHANGED <<stock_vars, day_vars, file_vars, job_vars>>

\* draw_artifact_lottery, lines 193-194
DrawInsufficient(user_coins) ==
    /\ ops < MaxOps
    /\ insufficient_coins(user_coins)
    /\ last' = Result("draw", None, "", FALSE, "InsufficientFunds", 0)
    /\ ops' = ops + 1
    /\ UNCHANGED <<artifact_data, coins, upgrade_items, re_roll_items>>
    /\ UNCHANGED <<stock_vars, day_vars, file_vars, job_vars>>

\* draw_artifact_lottery, lines 197-203: the message names the artifact
\* generate_random_artifact returned
DrawArtifact(user_coins, roll, rarity_roll, artifact_id) ==
    /\ ops < MaxOps
    /\ ~insufficient_coins(user_coins)
    /\ draw_bucket(roll) = "ArtifactFound"
    /\ artifact_id \in fresh_ids(artifact_data)
    /\ LET r == add_new_artifact_to_user(artifact_data, upgrade_items,
                    Artifact(artifact_id, rarity_of_roll(rarity_roll)))
       IN /\ artifact_data' = r.arts
          /\ upgrade_items' = r.items
    /\ coins' = ledger_add(coins, -draw_cost)
    /\ last' = DrawResult(roll, artifact_id, rarity_of_roll(rarity_roll),
                          "ArtifactFound", 0)
    /\ ops' = ops + 1
    /\ UNCHANGED re_roll_items
    /\ UNCHANGED <<stock_vars, day_vars, file_vars, job_vars>>

\* lines 204-208
DrawReRoll(user_coins, roll) ==
    /\ ops < MaxOps
    /\ ~insufficient_coins(user_coins)
    /\ draw_bucket(roll) = "ReRollItem"
    /\ coins' = ledger_add(coins, -draw_cost)
    /\ re_roll_items' = ledger_add(re_roll_items, 1)
    /\ last' = DrawResult(roll, None, "", "ReRollItem", 1)
    /\ ops' = ops + 1
    /\ UNCHANGED <<artifact_data, upgrade_items>>
    /\ UNCHANGED <<stock_vars, day_vars, file_vars, job_vars>>

\* lines 209-214
DrawItems(user_coins, roll, reinforcement_items) ==
    /\ ops < MaxOps
    /\ ~insufficient_coins(user_coins)
    /\ draw_bucket(roll) = "UpgradeItems"
    /\ coins' = ledger_add(coins, -draw_cost)
    /\ upgrade_items' = ledger_add(upgrade_items, reinforcement_items)
    /\ last' = DrawResult(roll, None, "", "UpgradeItems",
                          reinforcement_items)
    /\ ops' = ops + 1
    /\ UNCHANGED <<artifact_data, re_roll_items>>
    /\ UNCHANGED <<stock_vars, day_vars, file_vars, job_vars>>

DrawCoins_reward_only(user_coins, roll, reward_coins) ==
    /\ ops < MaxOps
    /\ ~insufficient_coins(user_coins)
    /\ draw_bucket(roll) = "Coins"
    /\ coins' = ledger_add(coins, reward_coins)
    /\ last' = DrawResult(roll, None, "", "Coins", reward_coins)
    /\ ops' = ops + 1
    /\ UNCHANGED <<artifact_data, upgrade_items, re_roll_items>>
    /\ UNCHANGED <<stock_vars, day_vars, file_vars, job_vars>>

\* lines 215-220
DrawCoins(user_coins, roll, reward_coins) ==
    /\ ops < MaxOps
    /\ ~insufficient_coins(user_coins)
    /\ draw_bucket(roll) = "Coins"
    /\ coins' = ledger_add(ledger_add(coins, -draw_cost), reward_coins)
    /\ last' = DrawResult(roll, None, "", "Coins", reward_coins)
    /\ ops' = ops + 1
    /\ UNCHANGED <<artifact_data, upgrade_items, re_roll_items>>
    /\ UNCHANGED <<stock_vars, day_vars, file_vars, job_vars>>

\* line 53: a locked artifact is not disassembled
disassembly_blocked_never(artifact) == FALSE

disassembly_blocked(artifact) == artifact.is_locked

\* disassemble_artifact(userId, artifact_id)
DisassembleArtifact(artifact_id) ==
    /\ ops < MaxOps
    /\ IF artifact_id \notin Ids(artifact_data)
       THEN /\ last' = Result("disassemble", artifact_id, "", FALSE,
                              "NotFound", 0)
            /\ UNCHANGED <<artifact_data, upgrade_items>>
       ELSE IF disassembly_blocked(
                   get_artifact_by_id(artifact_data, artifact_id))
       THEN /\ last' = Result("disassemble", artifact_id, "", FALSE,
                              "Locked", 0)
            /\ UNCHANGED <<artifact_data, upgrade_items>>
       ELSE LET artifact == get_artifact_by_id(artifact_data, artifact_id)
                reinforcement_items ==
                    get_reinforcement_items_from_disassembly(artifact)
            IN /\ artifact_data' = delete_artifact(artifact_data, artifact_id)
               /\ upgrade_items' = ledger_add(upgrade_items,
                                              reinforcement_items)
               /\ last' = Result("disassemble", artifact_id, "", TRUE,
                                 "Disassembled", reinforcement_items)
    /\ ops' = ops + 1
    /\ UNCHANGED <<coins, re_roll_items>>
    /\ UNCHANGED <<stock_vars, day_vars, file_vars, job_vars>>

\* every level costs what level 1 costs
required_items_level_one(level) == 2

required_items_after_increment(level) == 2 * (level + 1)

\* line 264: required_items = 2 * artifact.level
required_items(level) == 2 * level

required_coins_previous_level(level) == 100 * (level - 1)

\* line 265: required_coins = 100 * artifact.level
required_coins(level) == 100 * level

\* enhance_artifact(userId, artifact_id, reinforcement_items); the funds
\* message states the coins the user holds, 0 for an unknown user
EnhanceArtifact(userId, artifact_id, reinforcement_items) ==
    /\ ops < MaxOps
    /\ IF artifact_id \notin Ids(artifact_data)
       THEN /\ last' = Result("enhance", artifact_id, "", FALSE,
                              "NotFound", 0)
            /\ UNCHANGED <<artifact_data, upgrade_items, coins>>
       ELSE LET artifact == get_artifact_by_id(artifact_data, artifact_id)
                items_needed == required_items(artifact.level)
                coins_needed == required_coins(artifact.level)
            IN IF reinforcement_items < items_needed
               THEN /\ last' = Result("enhance", artifact_id, "", FALSE,
                                      "InsufficientItems", items_needed)
                    /\ UNCHANGED <<artifact_data, upgrade_items, coins>>
               ELSE IF ~get_user_by_id(userId) \/ coins < coins_needed
               THEN /\ last' = Result("enhance", artifact_id, "", FALSE,
                                      "InsufficientFunds",
                                      IF get_user_by_id(userId) THEN coins
                                      ELSE 0)
                    /\ UNCHANGED <<artifact_data, upgrade_items, coins>>
               ELSE /\ artifact.level < MaxLevel
                    /\ artifact_data' = update_artifact(artifact_data,
                            [artifact EXCEPT !.level = artifact.level + 1])
                    /\ upgrade_items' = ledger_add(upgrade_items,
                                                   -items_needed)
                    /\ coins' = ledger_add(coins, -coins_needed)
                    /\ last' = Result("enhance", artifact_id, "", TRUE,
                                      "Enhanced", items_needed)
    /\ ops' = ops + 1
    /\ UNCHANGED re_roll_items
    /\ UNCHANGED <<stock_vars, day_vars, file_vars, job_vars>>

\* artifactCore.lock_artifact -> artifact_data.lock_artifact
LockArtifact(artifact_id) ==
    /\ ops < MaxOps
    /\ artifact_data' = set_locked(artifact_data, artifact_id, TRUE)
    /\ last' = Result("lock", artifact_id, "",
                      artifact_id \in Ids(artifact_data), "", 0)
    /\ ops' = ops + 1
    /\ UNCHANGED <<coins, upgrade_items, re_roll_items>>
    /\ UNCHANGED <<stock_vars, day_vars, file_vars, job_vars>>

\* artifactCore.unlock_artifact -> artifact_data.unlock_artifact
UnlockArtifact(artifact_id) ==
    /\ ops < MaxOps
    /\ artifact_data' = set_locked(artifact_data, artifact_id, FALSE)
    /\ last' = Result("unlock", artifact_id, "",
                      artifact_id \in Ids(artifact_data), "", 0)
    /\ ops' = ops + 1
    /\ UNCHANGED <<coins, upgrade_items, re_roll_items>>
    /\ UNCHANGED <<stock_vars, day_vars, file_vars, job_vars>>

Next ==
    \/ \E rarity_roll \in RarityRolls,
          artifact_id \in fresh_ids(artifact_data) :
          GenerateArtifact(rarity_roll, artifact_id)
    \/ DrawInsufficient(coins)
    \/ \E roll \in Rolls, rarity_roll \in RarityRolls,
          artifact_id \in fresh_ids(artifact_data) :
          DrawArtifact(coins, roll, rarity_roll, artifact_id)
    \/ \E roll \in Rolls : DrawReRoll(coins, roll)
    \/ \E roll \in Rolls, reinforcement_items \in ItemRewards :
          DrawItems(coins, roll, reinforcement_items)
    \/ \E roll \in Rolls, reward_coins \in CoinRewards :
          DrawCoins(coins, roll, reward_coins)
    \/ \E artifact_id \in TargetIds : DisassembleArtifact(artifact_id)
    \/ \E userId \in UserIds, artifact_id \in TargetIds,
          reinforcement_items \in {upgrade_items} \cup SuppliedItems :
          EnhanceArtifact(userId, artifact_id, reinforcement_items)
    \/ \E artifact_id \in TargetIds : LockArtifact(artifact_id)
    \/ \E artifact_id \in TargetIds : UnlockArtifact(artifact_id)

Spec == Init /\ [][Next]_vars

TypeOK ==
    /\ \A i \in 1..Len(artifact_data) :
          /\ artifact_data[i].artifact_id \in 1..MaxArtifactId
          /\ artifact_data[i].level \in 1..MaxLevel
          /\ artifact_data[i].rarity \in RaritySet
          /\ artifact_data[i].is_locked \in BOOLEAN
    /\ Cardinality(Ids(artifact_data)) = Len(artifact_data)
    /\ coins \in Int /\ upgrade_items \in Int /\ re_roll_items \in Nat
    /\ ops \in 0..MaxOps

(* ------------------- the yield function on its own --------------------- *)
\* one unlocked artifact of every rarity and every level up to YieldLevels,
\* disassembled
InitYield ==
    /\ \E rarity \in RaritySet, level \in 1..YieldLevels :
          artifact_data = <<[artifact_id |-> 1, level |-> level,
                             rarity |-> rarity, is_locked |-> FALSE]>>
    /\ coins = 0
    /\ upgrade_items = 0
    /\ re_roll_items = 0
    /\ last = Result("init", None, "", TRUE, "", 0)
    /\ ops = 0
    /\ StockIdle
    /\ DayIdle
    /\ FilesIdle
    /\ JobIdle

NextYield == \E artifact_id \in {1} : DisassembleArtifact(artifact_id)

SpecYield == InitYield /\ [][NextYield]_vars

(* ---------------------- one draw, every roll value ---------------------- *)
\* random.randint(1, 100) and random.randint(1, 120) in full
AllRolls == 1..100

AllCoinRewards == 1..120

DrawInitCoins == {50, 100, 150}

\* a single call of draw_artifact_lottery is left to make
InitDraw ==
    /\ \/ artifact_data = InitCollection(StorageCap, "all")
       \/ artifact_data = InitCollection(StorageCap - 1, "none")
    /\ coins \in DrawInitCoins
    /\ upgrade_items \in InitItems
    /\ re_roll_items = 0
    /\ last = Result("init", None, "", TRUE, "", 0)
    /\ ops = MaxOps - 1
    /\ StockIdle
    /\ DayIdle
    /\ FilesIdle
    /\ JobIdle

NextDraw ==
    \/ DrawInsufficient(coins)
    \/ /\ ops < MaxOps
       /\ \E roll \in AllRolls, rarity_roll \in RarityRolls,
             artifact_id \in fresh_ids(artifact_data) :
             DrawArtifact(coins, roll, rarity_roll, artifact_id)
    \/ /\ ops < MaxOps
       /\ \E roll \in AllRolls : DrawReRoll(coins, roll)
    \/ /\ ops < MaxOps
       /\ \E roll \in AllRolls, reinforcement_items \in ItemRewards :
             DrawItems(coins, roll, reinforcement_items)
    \/ /\ ops < MaxOps
       /\ \E roll \in AllRolls, reward_coins \in AllCoinRewards :
             DrawCoins(coins, roll, reward_coins)

SpecDraw == InitDraw /\ [][NextDraw]_vars

(* ------------- plugin.py: the gold ledger and the stock commands -------- *)
\* the number of stock commands in one run
MaxTrades == 2

\* Python's round(n / d) for n >= 0: the nearest integer, a tie going to the
\* even one
round(n, d) ==
    LET q == n \div d
        r == n % d
    IN IF 2 * r < d THEN q
       ELSE IF 2 * r > d THEN q + 1
       ELSE IF q % 2 = 0 THEN q ELSE q + 1

abs(x) == IF x < 0 THEN -x ELSE x

\* the integer part of price * quantity
total_price_truncated(price, quantity) == (price * quantity) \div 100

\* total_price = int(round(stock_info.price * quantity)); price in hundredths
total_price(price, quantity) == round(price * quantity, 100)

\* math.ceil(total_price * 0.05) with no minimum
fee_without_minimum(total) == (total + 19) \div 20

\* fee = math.ceil(total_price * 0.05), raised to 1 when below
fee(total) ==
    LET ceil == (total + 19) \div 20
    IN IF ceil < 1 THEN 1 ELSE ceil

\* a user's record without a "stocks" key or with an empty one
NoStocks == [symbol \in {} |-> 0]

\* BoomDataManager.read_id
read_id(data, uid) == uid \in DOMAIN data

\* BoomDataManager.register_id: the record of uid is replaced
register_id(data, uid) ==
    [u \in DOMAIN data \cup {uid} |->
        IF u = uid
        THEN [gold |-> 10, stocks |-> NoStocks, last_checkin |-> None,
              streak |-> 0]
        ELSE data[u]]

\* BoomDataManager.get_gold
get_gold(data, uid) == IF uid \in DOMAIN data THEN data[uid].gold ELSE 0

\* BoomDataManager.add_gold: registers an unknown uid, never goes below 0
add_gold(data, uid, amount) ==
    LET known == IF uid \in DOMAIN data THEN data ELSE register_id(data, uid)
        gold == known[uid].gold + amount
    IN [known EXCEPT ![uid].gold = IF gold > 0 THEN gold ELSE 0]

\* the shares of symbol in the record of uid, 0 when there is no such record
owned_quantity(data, uid, symbol) ==
    IF uid \in DOMAIN data /\ symbol \in DOMAIN data[uid].stocks
    THEN data[uid].stocks[symbol]
    ELSE 0

\* BuyStockCommand: data[uid]["stocks"][symbol] += quantity, created at 0
add_stock(data, uid, symbol, quantity) ==
    LET stocks == data[uid].stocks
    IN [data EXCEPT ![uid].stocks =
           [s \in DOMAIN stocks \cup {symbol} |->
               IF s = symbol
               THEN (IF symbol \in DOMAIN stocks THEN stocks[symbol] ELSE 0)
                    + quantity
               ELSE stocks[s]]]

\* the holding is lowered and kept when it reaches 0
remove_stock_keep_zero(data, uid, symbol, quantity) ==
    [data EXCEPT ![uid].stocks[symbol] = @ - quantity]

\* SellStockCommand: data[uid]["stocks"][symbol] -= quantity, deleted at 0
remove_stock(data, uid, symbol, quantity) ==
    LET stocks == data[uid].stocks
        left == stocks[symbol] - quantity
    IN [data EXCEPT ![uid].stocks =
           IF left = 0
           THEN [s \in DOMAIN stocks \ {symbol} |-> stocks[s]]
           ELSE [stocks EXCEPT ![symbol] = left]]

\* stock.get_stock_info(symbol) is truthy for a listed symbol
get_stock_info(sd, symbol) == symbol \in DOMAIN sd

\* required_per_unit = max(1, int(round(10 * (1 + abs(cur_weight)))))
required_per_unit(cur_weight) ==
    LET required == round(10 * (100 + abs(cur_weight)), 100)
    IN IF required < 1 THEN 1 ELSE required

\* the weight update with the direction of the trade reversed
update_weight_reversed(sd, symbol, quantity, sign) ==
    LET cur_weight == sd[symbol].weight
        units == quantity \div required_per_unit(cur_weight)
    IN IF units > 0
       THEN [sd EXCEPT ![symbol].weight = cur_weight - sign * units]
       ELSE sd

\* the weight update of a trade: sign * 0.01 for each whole unit of shares
update_weight(sd, symbol, quantity, sign) ==
    LET cur_weight == sd[symbol].weight
        units == quantity \div required_per_unit(cur_weight)
    IN IF units > 0
       THEN [sd EXCEPT ![symbol].weight = cur_weight + sign * units]
       ELSE sd

\* the holdings check of a sale passes on any holding
insufficient_holdings_empty(owned, quantity) == owned <= 0

\* if owned_quantity < quantity
insufficient_holdings(owned, quantity) == owned < quantity

\* a fee equal to the proceeds is let through
fee_too_high_strict(f, total) == f > total

\* if fee >= total_price
fee_too_high(f, total) == f >= total

\* the proceeds are credited in full
net_gain_gross(total, f) == total

\* net_gain = total_price - fee
net_gain(total, f) == total - f

\* one executed stock command: its arguments, its result and the values its
\* reply shows; gold and stocks are the caller's balance and holdings when
\* the command started
Trade(op, uid, symbol, quantity, success, msg, price, total, f) ==
    [op |-> op, uid |-> uid, symbol |-> symbol, quantity |-> quantity,
     success |-> success, msg |-> msg, price |-> price,
     total_price |-> total, fee |-> f,
     gold |-> get_gold(boom_data, uid),
     stocks |-> IF uid \in DOMAIN boom_data THEN boom_data[uid].stocks
                ELSE NoStocks]

\* a command that returns before it writes
Refused(op, uid, symbol, quantity, msg, price, total, f) ==
    /\ trades' = Append(trades,
           Trade(op, uid, symbol, quantity, FALSE, msg, price, total, f))
    /\ UNCHANGED <<boom_data, stock_data>>

\* a buy that stores the total of the order as the price of the symbol
BuyStock_overwrites_price(uid, symbol, quantity) ==
    /\ Len(trades) < MaxTrades
    /\ IF quantity <= 0
       THEN Refused("buy", uid, symbol, quantity, "InvalidQuantity", 0, 0, 0)
       ELSE IF ~get_stock_info(stock_data, symbol)
       THEN Refused("buy", uid, symbol, quantity, "NotFound", 0, 0, 0)
       ELSE LET price == stock_data[symbol].price
                total == total_price(price, quantity)
                f == fee(total)
                current_gold == get_gold(boom_data, uid)
            IN IF current_gold < total + f
               THEN Refused("buy", uid, symbol, quantity,
                            "InsufficientFunds", price, total, f)
               ELSE /\ boom_data' =
                          add_stock(add_gold(boom_data, uid, -(total + f)),
                                    uid, symbol, quantity)
                    /\ stock_data' =
                          [update_weight(stock_data, symbol, quantity, -1)
                              EXCEPT ![symbol].price = total]
                    /\ trades' = Append(trades,
                          Trade("buy", uid, symbol, quantity, TRUE, "OK",
                                price, total, f))
    /\ UNCHANGED <<artifact_vars, day_vars, file_vars, job_vars>>

\* BuyStockCommand.execute
BuyStock(uid, symbol, quantity) ==
    /\ Len(trades) < MaxTrades
    /\ IF quantity <= 0
       THEN Refused("buy", uid, symbol, quantity, "InvalidQuantity", 0, 0, 0)
       ELSE IF ~get_stock_info(stock_data, symbol)
       THEN Refused("buy", uid, symbol, quantity, "NotFound", 0, 0, 0)
       ELSE LET price == stock_data[symbol].price
                total == total_price(price, quantity)
                f == fee(total)
                current_gold == get_gold(boom_data, uid)
            IN IF current_gold < total + f
               THEN Refused("buy", uid, symbol, quantity,
                            "InsufficientFunds", price, total, f)
               ELSE /\ boom_data' =
                          add_stock(add_gold(boom_data, uid, -(total + f)),
                                    uid, symbol, quantity)
                    /\ stock_data' =
                          update_weight(stock_data, symbol, quantity, -1)
                    /\ trades' = Append(trades,
                          Trade("buy", uid, symbol, quantity, TRUE, "OK",
                                price, total, f))
    /\ UNCHANGED <<artifact_vars, day_vars, file_vars, job_vars>>

\* SellStockCommand.execute
SellStock(uid, symbol, quantity) ==
    /\ Len(trades) < MaxTrades
    /\ IF quantity <= 0
       THEN Refused("sell", uid, symbol, quantity, "InvalidQuantity", 0, 0, 0)
       ELSE IF ~get_stock_info(stock_data, symbol)
       THEN Refused("sell", uid, symbol, quantity, "NotFound", 0, 0, 0)
       ELSE IF uid \notin DOMAIN boom_data
               \/ symbol \notin DOMAIN boom_data[uid].stocks
       THEN Refused("sell", uid, symbol, quantity, "NoHolding", 0, 0, 0)
       ELSE IF insufficient_holdings(boom_data[uid].stocks[symbol], quantity)
       THEN Refused("sell", uid, symbol, quantity, "InsufficientHoldings",
                    0, 0, 0)
       ELSE LET price == stock_data[symbol].price
                total == total_price(price, quantity)
                f == fee(total)
                gold == boom_data[uid].gold + net_gain(total, f)
            IN IF fee_too_high(f, total)
               THEN Refused("sell", uid, symbol, quantity,
                            "FeeExceedsProceeds", price, total, f)
               ELSE /\ boom_data' =
                          remove_stock(
                             [boom_data EXCEPT ![uid].gold =
                                 IF gold > 0 THEN gold ELSE 0],
                             uid, symbol, quantity)
                    /\ stock_data' =
                          update_weight(stock_data, symbol, quantity, 1)
                    /\ trades' = Append(trades,
                          Trade("sell", uid, symbol, quantity, TRUE, "OK",
                                price, total, f))
    /\ UNCHANGED <<artifact_vars, day_vars, file_vars, job_vars>>

\* the uids that send commands: u1 is registered, u3 is not; u2 is a
\* registered user who sends none
Callers == {"u1", "u3"}

\* the symbols named in commands; ZZZ is not listed
SymbolArgs == {"AAA", "BBB", "ZZZ"}

\* the quantities named in commands; the pattern \d+ admits 0
Quantities == {0, 1, 2, 10}

\* the price of AAA in hundredths: 0.50, 1.00, 2.50 and 10.00
StockPrices == {50, 100, 250, 1000}

\* the balance of u1: the 10 gold of a new registration, or 250
InitGold == {10, 250}

InitStock ==
    /\ artifact_data = <<>>
    /\ coins = 0
    /\ upgrade_items = 0
    /\ re_roll_items = 0
    /\ last = Result("init", None, "", TRUE, "", 0)
    /\ ops = 0
    /\ \E gold \in InitGold :
          boom_data =
             [uid \in {"u1", "u2"} |->
                 IF uid = "u1"
                 THEN [gold |-> gold,
                       stocks |-> [symbol \in {"AAA"} |-> 2],
                       last_checkin |-> None, streak |-> 0]
                 ELSE [gold |-> 50,
                       stocks |-> [symbol \in {"AAA", "BBB"} |-> 3],
                       last_checkin |-> None, streak |-> 0]]
    /\ \E price \in StockPrices :
          stock_data =
             [symbol \in {"AAA", "BBB"} |->
                 IF symbol = "AAA" THEN [price |-> price, weight |-> 0]
                 ELSE [price |-> 175, weight |-> 0]]
    /\ trades = <<>>
    /\ DayIdle
    /\ FilesIdle
    /\ JobIdle

NextStock ==
    \/ \E uid \in Callers, symbol \in SymbolArgs, quantity \in Quantities :
          BuyStock(uid, symbol, quantity)
    \/ \E uid \in Callers, symbol \in SymbolArgs, quantity \in Quantities :
          SellStock(uid, symbol, quantity)

SpecStock == InitStock /\ [][NextStock]_vars

TypeOKStock ==
    /\ \A uid \in DOMAIN boom_data :
          /\ boom_data[uid].gold \in Nat
          /\ DOMAIN boom_data[uid].stocks \subseteq {"AAA", "BBB"}
          /\ \A symbol \in DOMAIN boom_data[uid].stocks :
                boom_data[uid].stocks[symbol] \in Nat
    /\ \A symbol \in DOMAIN stock_data :
          /\ stock_data[symbol].price \in Nat
          /\ stock_data[symbol].weight \in Int
    /\ Len(trades) <= MaxTrades

(* ------------------- the weight of one symbol under trades -------------- *)
\* quantities around the shares one weight unit takes, and a large order
WeightQuantities == {9, 10, 11, 210}

\* the weight of AAA in hundredths when the run starts
InitWeights == {-20, -15, -5, 0, 5, 15, 20}

\* u1 can pay for and deliver every order
InitWeight ==
    /\ artifact_data = <<>>
    /\ coins = 0
    /\ upgrade_items = 0
    /\ re_roll_items = 0
    /\ last = Result("init", None, "", TRUE, "", 0)
    /\ ops = 0
    /\ boom_data =
          [uid \in {"u1"} |->
              [gold |-> 1000, stocks |-> [symbol \in {"AAA"} |-> 1000],
               last_checkin |-> None, streak |-> 0]]
    /\ \E weight \in InitWeights :
          stock_data =
             [symbol \in {"AAA", "BBB"} |->
                 IF symbol = "AAA" THEN [price |-> 50, weight |-> weight]
                 ELSE [price |-> 175, weight |-> 0]]
    /\ trades = <<>>
    /\ DayIdle
    /\ FilesIdle
    /\ JobIdle

NextWeight ==
    \/ \E quantity \in WeightQuantities : BuyStock("u1", "AAA", quantity)
    \/ \E quantity \in WeightQuantities : SellStock("u1", "AAA", quantity)

SpecWeight == InitWeight /\ [][NextWeight]_vars

(* ------------- two persons over the one loaded collection -------------- *)
\* the persons whose artifact files are data/{person_id}/artifact_data.json
Persons == {"p1", "p2"}

\* the file of each person when the run starts: two artifacts each
InitFiles ==
    [person \in Persons |->
        IF person = "p1"
        THEN <<Artifact(1, "Common"), Artifact(2, "Rare")>>
        ELSE <<Artifact(11, "Common"), Artifact(12, "Epic")>>]

\* the operations a person asks for between its load and its save
Operations ==
    [kind : {"lock"}, artifact_id : {1, 11}, rarity : {""}]
       \cup [kind : {"generate"}, artifact_id : {5, 15},
             rarity : {"Common"}]

\* the collection an operation leaves when it is applied to arts
ApplyOperation(op, arts) ==
    IF op.kind = "lock"
    THEN set_locked(arts, op.artifact_id, TRUE)
    ELSE add_new_artifact_to_user(arts, 0,
            Artifact(op.artifact_id, op.rarity)).arts

\* load_artifact_data(person_id): the global dict is replaced by the file
Load(person) ==
    /\ session[person].pc = "idle"
    /\ artifact_data' = files[person]
    /\ session' = [session EXCEPT ![person].pc = "loaded"]
    /\ UNCHANGED <<coins, upgrade_items, re_roll_items, last, ops, files>>
    /\ UNCHANGED <<stock_vars, day_vars, job_vars>>

\* artifactCore.lock_artifact or generate_random_artifact: they work on the
\* global dict, whoever loaded it
Operate(person, op) ==
    /\ session[person].pc = "loaded"
    /\ op.kind = "generate" => op.artifact_id \in fresh_ids(artifact_data)
    /\ artifact_data' = ApplyOperation(op, artifact_data)
    /\ session' = [session EXCEPT ![person] = [pc |-> "operated", op |-> op]]
    /\ UNCHANGED <<coins, upgrade_items, re_roll_items, last, ops, files>>
    /\ UNCHANGED <<stock_vars, day_vars, job_vars>>

\* save_artifact_data(person_id): the file is replaced by the global dict
Save(person) ==
    /\ session[person].pc = "operated"
    /\ files' = [files EXCEPT ![person] = artifact_data]
    /\ session' = [session EXCEPT ![person].pc = "saved"]
    /\ UNCHANGED artifact_vars
    /\ UNCHANGED <<stock_vars, day_vars, job_vars>>

InitUsers ==
    /\ artifact_data = <<>>
    /\ coins = 0
    /\ upgrade_items = 0
    /\ re_roll_items = 0
    /\ last = Result("init", None, "", TRUE, "", 0)
    /\ ops = 0
    /\ StockIdle
    /\ DayIdle
    /\ JobIdle
    /\ files = InitFiles
    /\ session = [person \in Persons |->
                     [pc |-> "idle", op |-> [kind |-> "none",
                                             artifact_id |-> None,
                                             rarity |-> ""]]]

NextUsers ==
    \/ \E person \in Persons : Load(person)
    \/ \E person \in Persons, op \in Operations : Operate(person, op)
    \/ \E person \in Persons : Save(person)

SpecUsers == InitUsers /\ [][NextUsers]_vars

(* ------------------- trades and the periodic price tick ----------------- *)
\* the prices a tick can leave, in hundredths; a price is never below 1.00
TickPrices == {100, 250, 1000}

\* one symbol's step of the scheduled price update: the price is replaced,
\* the weight is read and kept
Tick(symbol, price) ==
    /\ Len(trades) < MaxTrades
    /\ symbol \in DOMAIN stock_data
    /\ stock_data' = [stock_data EXCEPT ![symbol].price = price]
    /\ trades' = Append(trades,
          Trade("tick", "", symbol, 0, TRUE, "OK", price, 0, 0))
    /\ UNCHANGED boom_data
    /\ UNCHANGED <<artifact_vars, day_vars, file_vars, job_vars>>

NextTick ==
    \/ \E quantity \in Quantities : BuyStock("u1", "AAA", quantity)
    \/ \E quantity \in Quantities : SellStock("u1", "AAA", quantity)
    \/ \E symbol \in {"AAA", "BBB"}, price \in TickPrices :
          Tick(symbol, price)

SpecTick == InitStock /\ [][NextTick]_vars

(* ------------- the gold ledger under every command of the plugin ------- *)
\* the dates a run passes through
MaxDay == 2

\* an executed gold command in the log of commands: quantity holds the stake
\* of a gold bomb, total_price the gold the command paid out, date the day
\* the command ran
Command(op, uid, amount, success, msg, reward) ==
    [op |-> op, uid |-> uid, symbol |-> "", quantity |-> amount,
     success |-> success, msg |-> msg, price |-> 0,
     total_price |-> reward, fee |-> 0,
     gold |-> get_gold(boom_data, uid),
     stocks |-> IF uid \in DOMAIN boom_data THEN boom_data[uid].stocks
                ELSE NoStocks,
     date |-> today]

\* a gold command that returns before it writes
RefusedCommand(op, uid, amount, msg) ==
    /\ trades' = Append(trades, Command(op, uid, amount, FALSE, msg, 0))
    /\ UNCHANGED boom_data

\* CheckInCommand.execute.  For an unknown uid the reply is sent first and
\* register_id runs when the command is resumed: see CheckInRegister
CheckIn(uid, reward_gold) ==
    /\ Len(trades) < MaxTrades
    /\ IF ~read_id(boom_data, uid)
       THEN /\ pending' = [pending EXCEPT ![uid] = @ + 1]
            /\ RefusedCommand("checkin", uid, 0, "Registered")
       ELSE /\ UNCHANGED pending
            /\ IF boom_data[uid].last_checkin = today
               THEN RefusedCommand("checkin", uid, 0, "AlreadyCheckedIn")
               ELSE LET last_checkin == boom_data[uid].last_checkin
                        streak == IF last_checkin # None
                                     /\ last_checkin = today - 1
                                  THEN boom_data[uid].streak + 1
                                  ELSE 1
                        total_reward == streak + reward_gold
                        gold == boom_data[uid].gold + total_reward
                    IN /\ boom_data' =
                             [boom_data EXCEPT
                                 ![uid].gold = IF gold > 0 THEN gold ELSE 0,
                                 ![uid].last_checkin = today,
                                 ![uid].streak = streak]
                       /\ trades' = Append(trades,
                             Command("checkin", uid, 0, TRUE, "OK",
                                     total_reward))
    /\ UNCHANGED <<stock_data, today>>
    /\ UNCHANGED <<artifact_vars, file_vars, job_vars>>

\* the rest of a first check-in: BoomDataManager.register_id(uid)
CheckInRegister(uid) ==
    /\ pending[uid] > 0
    /\ pending' = [pending EXCEPT ![uid] = @ - 1]
    /\ boom_data' = register_id(boom_data, uid)
    /\ UNCHANGED <<stock_data, trades, today>>
    /\ UNCHANGED <<artifact_vars, file_vars, job_vars>>

\* a gold bomb with no funds check and no floor at 0
Boom_overdraft(uid, gold, new_gold) ==
    /\ Len(trades) < MaxTrades
    /\ new_gold \in 0..(2 * gold)
    /\ IF gold <= 0
       THEN RefusedCommand("boom", uid, gold, "InvalidAmount")
       ELSE IF gold < 5
       THEN RefusedCommand("boom", uid, gold, "TooSmall")
       ELSE IF ~read_id(boom_data, uid)
       THEN /\ boom_data' = register_id(boom_data, uid)
            /\ trades' = Append(trades,
                  Command("boom", uid, gold, FALSE, "Registered", 0))
       ELSE /\ boom_data' =
                  [boom_data EXCEPT ![uid].gold = @ - gold + new_gold]
            /\ trades' = Append(trades,
                  Command("boom", uid, gold, TRUE, "OK", new_gold))
    /\ UNCHANGED <<stock_data, today, pending>>
    /\ UNCHANGED <<artifact_vars, file_vars, job_vars>>

\* BoomCommand.execute
Boom(uid, gold, new_gold) ==
    /\ Len(trades) < MaxTrades
    /\ new_gold \in 0..(2 * gold)
    /\ IF gold <= 0
       THEN RefusedCommand("boom", uid, gold, "InvalidAmount")
       ELSE IF gold < 5
       THEN RefusedCommand("boom", uid, gold, "TooSmall")
       ELSE IF ~read_id(boom_data, uid)
       THEN /\ boom_data' = register_id(boom_data, uid)
            /\ trades' = Append(trades,
                  Command("boom", uid, gold, FALSE, "Registered", 0))
       ELSE IF get_gold(boom_data, uid) < gold
       THEN RefusedCommand("boom", uid, gold, "InsufficientFunds")
       ELSE /\ boom_data' =
                  add_gold(add_gold(boom_data, uid, -gold), uid, new_gold)
            /\ trades' = Append(trades,
                  Command("boom", uid, gold, TRUE, "OK", new_gold))
    /\ UNCHANGED <<stock_data, today, pending>>
    /\ UNCHANGED <<artifact_vars, file_vars, job_vars>>

\* midnight: datetime.datetime.now() moves to the next date
NextDay ==
    /\ today < MaxDay
    /\ today' = today + 1
    /\ UNCHANGED <<pending, stock_vars, artifact_vars, file_vars, job_vars>>

\* the stakes named in a gold bomb; the pattern \w+ admits 0
BoomStakes == {0, 4, 10, 20}

\* random.randint(0, gold * 2): nothing, the stake, twice the stake
BoomWins(gold) == {0, gold, 2 * gold}

\* random.randint(0, 20)
CheckInRewards == {0, 20}

\* the quantities traded beside the gold commands
LedgerQuantities == {2, 10}

InitLedger ==
    /\ artifact_data = <<>>
    /\ coins = 0
    /\ upgrade_items = 0
    /\ re_roll_items = 0
    /\ last = Result("init", None, "", TRUE, "", 0)
    /\ ops = 0
    /\ \E gold \in InitGold :
          boom_data =
             [uid \in {"u1"} |->
                 [gold |-> gold, stocks |-> [symbol \in {"AAA"} |-> 2],
                  last_checkin |-> None, streak |-> 0]]
    /\ stock_data =
          [symbol \in {"AAA"} |-> [price |-> 250, weight |-> 0]]
    /\ trades = <<>>
    /\ today = 1
    /\ pending = [uid \in Callers |-> 0]
    /\ FilesIdle
    /\ JobIdle

NextLedger ==
    \/ \E uid \in Callers, reward_gold \in CheckInRewards :
          CheckIn(uid, reward_gold)
    \/ \E uid \in Callers : CheckInRegister(uid)
    \/ \E uid \in Callers, gold \in BoomStakes :
          \E new_gold \in BoomWins(gold) : Boom(uid, gold, new_gold)
    \/ \E uid \in Callers, quantity \in LedgerQuantities :
          BuyStock(uid, "AAA", quantity)
    \/ \E uid \in Callers, quantity \in LedgerQuantities :
          SellStock(uid, "AAA", quantity)
    \/ NextDay

SpecLedger == InitLedger /\ [][NextLedger]_vars

(* ------------- enhancing with an item count the ledger does not hold ---- *)
\* the coins of one enhancement of a level-1 artifact and no draw after it,
\* and the coins of two enhancements of one artifact, level 1 and level 2
EnhanceCoins == {150, 350}

\* a ledger with no enhancement items; the caller of enhance_artifact still
\* passes the counts of Next, the ledger's own or SuppliedItems
InitEnhance ==
    /\ \E n \in InitSizes, locks \in InitLocks :
          artifact_data = InitCollection(n, locks)
    /\ coins \in EnhanceCoins
    /\ upgrade_items = 0
    /\ re_roll_items = 0
    /\ last = Result("init", None, "", TRUE, "", 0)
    /\ ops = 0
    /\ StockIdle
    /\ DayIdle
    /\ FilesIdle
    /\ JobIdle

SpecEnhance == InitEnhance /\ [][Next]_vars

(* ------------------- the runner of the periodic job --------------------- *)
\* the ways an invocation of the scheduled function ends
FuncOutcomes == {"returned", "raised"}

\* SimpleScheduler.add_job.  With a running event loop create_task starts
\* the runner.  Without one create_task raises RuntimeError and the runner
\* is handed to asyncio.run inside the new loop, which refuses to start in a
\* running loop: the job exists and its runner never runs
AddJob(running_loop) ==
    /\ job.pc = "none"
    /\ job' = [pc |-> IF running_loop THEN "loop" ELSE "unstarted",
               cancel |-> FALSE, result |-> "", after_failure |-> FALSE]
    /\ UNCHANGED <<stock_vars, artifact_vars, day_vars, file_vars>>

\* _SimpleJob.cancel
Cancel ==
    /\ job.pc # "none"
    /\ ~job.cancel
    /\ job' = [job EXCEPT !.cancel = TRUE]
    /\ UNCHANGED <<stock_vars, artifact_vars, day_vars, file_vars>>

\* the prices of all symbols after an update that returned
update_prices(data, prices) ==
    [symbol \in DOMAIN data |-> [data[symbol] EXCEPT !.price = prices[symbol]]]

\* a runner that lets the exception of the scheduled function end it
RunnerIterate_uncaught(outcome, prices) ==
    /\ job.pc = "loop"
    /\ IF job.cancel
       THEN /\ job' = [job EXCEPT !.pc = "done"]
            /\ UNCHANGED stock_data
       ELSE /\ stock_data' = IF outcome = "returned"
                             THEN update_prices(stock_data, prices)
                             ELSE stock_data
            /\ job' = [job EXCEPT
                          !.pc = IF outcome = "raised" THEN "done"
                                 ELSE "sleep",
                          !.result = outcome,
                          !.after_failure = (job.result = "raised")]
    /\ UNCHANGED <<boom_data, trades>>
    /\ UNCHANGED <<artifact_vars, day_vars, file_vars>>

\* _runner, from the test of the while loop to the sleep: the loop ends when
\* the job is cancelled; otherwise func() is called, an Exception it raises
\* is caught and logged, and the runner goes to sleep.  next_run_time, a
\* wall-clock stamp that only the market display reads, is left out
RunnerIterate(outcome, prices) ==
    /\ job.pc = "loop"
    /\ IF job.cancel
       THEN /\ job' = [job EXCEPT !.pc = "done"]
            /\ UNCHANGED stock_data
       ELSE /\ stock_data' = IF outcome = "returned"
                             THEN update_prices(stock_data, prices)
                             ELSE stock_data
            /\ job' = [job EXCEPT
                          !.pc = "sleep",
                          !.result = outcome,
                          !.after_failure = (job.result = "raised")]
    /\ UNCHANGED <<boom_data, trades>>
    /\ UNCHANGED <<artifact_vars, day_vars, file_vars>>

\* _runner: asyncio.sleep(interval) is over
RunnerWake ==
    /\ job.pc = "sleep"
    /\ job' = [job EXCEPT !.pc = "loop"]
    /\ UNCHANGED <<stock_vars, artifact_vars, day_vars, file_vars>>

RunnerStep ==
    \/ \E outcome \in FuncOutcomes,
          prices \in [DOMAIN stock_data -> TickPrices] :
          RunnerIterate(outcome, prices)
    \/ RunnerWake

\* one user holding one symbol, before add_job is called
InitRunner ==
    /\ artifact_data = <<>>
    /\ coins = 0
    /\ upgrade_items = 0
    /\ re_roll_items = 0
    /\ last = Result("init", None, "", TRUE, "", 0)
    /\ ops = 0
    /\ boom_data =
          [uid \in {"u1"} |->
              [gold |-> 250, stocks |-> [symbol \in {"AAA"} |-> 2],
               last_checkin |-> None, streak |-> 0]]
    /\ stock_data =
          [symbol \in {"AAA"} |-> [price |-> 100, weight |-> 0]]
    /\ trades = <<>>
    /\ DayIdle
    /\ FilesIdle
    /\ JobIdle

NextRunner ==
    \/ \E running_loop \in BOOLEAN : AddJob(running_loop)
    \/ Cancel
    \/ RunnerStep
    \/ BuyStock("u1", "AAA", 1)
    \/ SellStock("u1", "AAA", 1)

\* the event loop runs a task that is ready and ends a sleep after its
\* interval
SpecRunner ==
    InitRunner /\ [][NextRunner]_vars /\ WF_vars(RunnerStep)

(* ------------- check-ins that overlap a first check-in ----------------- *)
\* the first check-ins of u3 that have sent their reply and are still to
\* call register_id when the log of commands starts
InitPending == {0, 2}

InitCheckIn ==
    /\ artifact_data = <<>>
    /\ coins = 0
    /\ upgrade_items = 0
    /\ re_roll_items = 0
    /\ last = Result("init", None, "", TRUE, "", 0)
    /\ ops = 0
    /\ boom_data =
          [uid \in {"u1"} |->
              [gold |-> 10, stocks |-> [symbol \in {"AAA"} |-> 2],
               last_checkin |-> None, streak |-> 0]]
    /\ stock_data =
          [symbol \in {"AAA"} |-> [price |-> 250, weight |-> 0]]
    /\ trades = <<>>
    /\ today = 1
    /\ \E n \in InitPending :
          pending = [uid \in Callers |-> IF uid = "u3" THEN n ELSE 0]
    /\ FilesIdle
    /\ JobIdle

SpecCheckIn == InitCheckIn /\ [][NextLedger]_vars

(* ------------- the gold bomb of the mini game (gold_boom.py) ----------- *)
\* line 25 passes the local person_id to get_person_value; its only
\* assignment is on line 28, so the name is unbound when it is read
person_id_bound == FALSE

\* the amounts named in the command; the pattern \d+ admits 0
GoldBoomAmounts == {0, 100, 400}

\* random.choice([-1, 0, 1])
Multipliers == {-1, 0, 1}

\* GoldBoomCommand.execute; userCore's coins are the coins of the ledger
GoldBoom(userId, amount, multiplier) ==
    /\ ops < MaxOps
    /\ IF ~person_id_bound
       THEN /\ last' = Result("gold_boom", None, "", FALSE,
                              "UnboundLocalError", amount)
            /\ UNCHANGED coins
       ELSE IF ~get_user_by_id(userId)
       THEN /\ last' = Result("gold_boom", None, "", FALSE,
                              "NotRegistered", amount)
            /\ UNCHANGED coins
       ELSE IF amount <= 0
       THEN /\ last' = Result("gold_boom", None, "", FALSE,
                              "InvalidAmount", amount)
            /\ UNCHANGED coins
       ELSE IF coins < amount
       THEN /\ last' = Result("gold_boom", None, "", FALSE,
                              "InsufficientFunds", amount)
            /\ UNCHANGED coins
       ELSE LET reward == amount * multiplier + amount
            IN /\ coins' = ledger_add(ledger_add(coins, -amount), reward)
               /\ last' = Result("gold_boom", None, "", TRUE, "Done",
                                 reward)
    /\ ops' = ops + 1
    /\ UNCHANGED <<artifact_data, upgrade_items, re_roll_items>>
    /\ UNCHANGED <<stock_vars, day_vars, file_vars, job_vars>>

NextGoldBoom ==
    \/ Next
    \/ \E userId \in UserIds, amount \in GoldBoomAmounts,
          multiplier \in Multipliers :
          GoldBoom(userId, amount, multiplier)

SpecGoldBoom == Init /\ [][NextGoldBoom]_vars

(* ------------------------------ properties ----------------------------- *)
Range(arts) == {arts[i] : i \in 1..Len(arts)}

Unlocked(arts) == {a \in Range(arts) : ~a.is_locked}

\* the step is a call of add_new_artifact_to_user: generate_random_artifact
\* called directly or by a draw whose roll is in the artifact bucket
AddStep ==
    \/ last'.op = "generate"
    \/ last'.op = "draw" /\ last'.msg = "ArtifactFound"

\* the artifacts of the collection that the step removed
Removed == {a \in Range(artifact_data) :
               a.artifact_id \notin Ids(artifact_data')}

\* C1: the collection never holds more than 20 artifacts
C1_Capacity == Len(artifact_data) <= 20

\* an artifact was added to the full initial collection (ids 1..20), which
\* still holds 20
C1_Witness ==
    /\ ops = 1
    /\ last.op = "generate"
    /\ last.artifact_id \in Ids(artifact_data)
    /\ 20 \in Ids(artifact_data)
    /\ Len(artifact_data) = 20

\* C2: every artifact that is locked before a call of
\* add_new_artifact_to_user is still in the collection, unchanged, after it
C2_LockedSurviveAdd ==
    [][AddStep =>
         \A a \in Range(artifact_data) :
            a.is_locked => a \in Range(artifact_data')]_vars

\* an unlocked level-3 artifact (id 2) was evicted from a full collection
\* whose other artifacts are locked, some of them at level 1
C2_Witness ==
    /\ ops = 2
    /\ last.op = "generate"
    /\ Len(artifact_data) = 20
    /\ last.artifact_id \in Ids(artifact_data)
    /\ 2 \notin Ids(artifact_data)
    /\ \A a \in Range(artifact_data) :
          a.artifact_id # last.artifact_id => a.is_locked
    /\ \E a \in Range(artifact_data) : a.is_locked /\ a.level = 1

\* C3: add_new_artifact_to_user on a full collection with an unlocked
\* artifact removes exactly one artifact, which is unlocked and of the lowest
\* level among the unlocked ones, keeps every other artifact, stores the new
\* one and leaves 20 artifacts
C3_EvictLowestUnlocked ==
    [][(AddStep /\ Len(artifact_data) = 20 /\ Unlocked(artifact_data) # {}) =>
         /\ Cardinality(Removed) = 1
         /\ \A r \in Removed :
               /\ ~r.is_locked
               /\ \A a \in Unlocked(artifact_data) : r.level <= a.level
         /\ \A a \in Range(artifact_data) \ Removed :
               a \in Range(artifact_data')
         /\ last'.artifact_id \notin Ids(artifact_data)
         /\ Artifact(last'.artifact_id, last'.rarity) \in Range(artifact_data')
         /\ Len(artifact_data') = 20]_vars

\* the full, all-unlocked initial collection after one generation: the first
\* level-1 artifact (id 3) is gone and the new one is stored
C3_Witness ==
    /\ ops = 1
    /\ last.op = "generate"
    /\ Len(artifact_data) = 20
    /\ last.artifact_id \in Ids(artifact_data)
    /\ 3 \notin Ids(artifact_data)
    /\ \A a \in Range(artifact_data) : ~a.is_locked

\* C4: an eviction credits the enhancement-item ledger with the yield of the
\* evicted artifact
C4_EvictionCredits ==
    [][(AddStep /\ Len(artifact_data) = 20 /\ Unlocked(artifact_data) # {}) =>
         \E r \in Removed :
            upgrade_items' = upgrade_items
                + get_reinforcement_items_from_disassembly(r)]_vars

\* C5: add_new_artifact_to_user on a full collection whose artifacts are all
\* locked leaves the collection as it was and credits the yield of the new
\* artifact
C5_FullAllLocked ==
    [][(AddStep /\ Len(artifact_data) = 20 /\ Unlocked(artifact_data) = {}) =>
         /\ artifact_data' = artifact_data
         /\ last'.artifact_id \notin Ids(artifact_data')
         /\ upgrade_items' = upgrade_items
                + get_reinforcement_items_from_disassembly(
                      Artifact(last'.artifact_id, last'.rarity))]_vars

\* a Legendary artifact generated into the full, all-locked initial
\* collection: not stored, 100 items credited
C5_Witness ==
    /\ ops = 1
    /\ last.op = "generate"
    /\ last.rarity = "Legendary"
    /\ Len(artifact_data) = 20
    /\ Unlocked(artifact_data) = {}
    /\ last.artifact_id \notin Ids(artifact_data)
    /\ upgrade_items = 110

\* C6: the result of a draw does not announce an artifact that is not in the
\* collection
C6_NoAbsentArtifactAnnounced ==
    (last.op = "draw" /\ last.msg = "ArtifactFound")
        => last.artifact_id \in Ids(artifact_data)

\* C7: disassembling a stored, unlocked artifact succeeds, removes that
\* artifact and no other, and credits its yield
C7_DisassembleUnlocked ==
    [][(/\ last'.op = "disassemble"
        /\ last'.artifact_id \in Ids(artifact_data)
        /\ ~get_artifact_by_id(artifact_data, last'.artifact_id).is_locked) =>
         /\ last'.success
         /\ Range(artifact_data') = Range(artifact_data)
                \ {get_artifact_by_id(artifact_data, last'.artifact_id)}
         /\ Len(artifact_data') = Len(artifact_data) - 1
         /\ upgrade_items' = upgrade_items
                + get_reinforcement_items_from_disassembly(
                      get_artifact_by_id(artifact_data, last'.artifact_id))
         /\ coins' = coins /\ re_roll_items' = re_roll_items]_vars

\* artifact 2 (Rare, level 3) was disassembled for 24 items
C7_Witness ==
    /\ last.op = "disassemble"
    /\ last.success
    /\ last.artifact_id = 2
    /\ 2 \notin Ids(artifact_data)
    /\ last.amount = 24
    /\ upgrade_items = 34

\* C8: disassembling an absent or a locked artifact fails and changes neither
\* the collection nor the ledger, and an artifact that is locked before a
\* step is in the collection after the step
C8_DisassembleFails ==
    [][/\ (/\ last'.op = "disassemble"
           /\ \/ last'.artifact_id \notin Ids(artifact_data)
              \/ get_artifact_by_id(artifact_data,
                                    last'.artifact_id).is_locked) =>
            /\ ~last'.success
            /\ artifact_data' = artifact_data
            /\ upgrade_items' = upgrade_items
            /\ coins' = coins /\ re_roll_items' = re_roll_items
       /\ \A a \in Range(artifact_data) :
             a.is_locked => a.artifact_id \in Ids(artifact_data')]_vars

\* artifact 3 was locked by a command and its disassembly was then refused
C8_Witness ==
    /\ ops = 2
    /\ last.op = "disassemble"
    /\ ~last.success
    /\ last.msg = "Locked"
    /\ last.artifact_id = 3
    /\ \E a \in Range(artifact_data) : a.artifact_id = 3 /\ a.is_locked
    /\ \E a \in Range(artifact_data) : ~a.is_locked

YieldBase(rarity) ==
    CASE rarity = "Common" -> 1
      [] rarity = "Uncommon" -> 5
      [] rarity = "Rare" -> 20
      [] rarity = "Epic" -> 50
      [] rarity = "Legendary" -> 100

\* C9: a disassembly credits base + floor(base * (level - 1) / 10) with base
\* 1, 5, 20, 50, 100 by rarity: 1 for Common level 1, 100 for Legendary
\* level 1, 30 for Rare level 6
C9_Yield ==
    [][(last'.op = "disassemble" /\ last'.success) =>
         LET a == get_artifact_by_id(artifact_data, last'.artifact_id)
             credited == upgrade_items' - upgrade_items
         IN /\ credited = YieldBase(a.rarity)
                   + ((YieldBase(a.rarity) * (a.level - 1)) \div 10)
            /\ (a.rarity = "Common" /\ a.level = 1) => credited = 1
            /\ (a.rarity = "Legendary" /\ a.level = 1) => credited = 100
            /\ (a.rarity = "Rare" /\ a.level = 6) => credited = 30]_vars

\* a disassembly credited 30 items
C9_Witness ==
    /\ last.op = "disassemble"
    /\ last.success
    /\ artifact_data = <<>>
    /\ upgrade_items = 30

\* C10: a successful enhancement of an artifact at level L raises the level
\* to L + 1, takes 2 * L items and 100 * L coins and changes nothing else
C10_EnhanceCost ==
    [][(last'.op = "enhance" /\ last'.success) =>
         LET a == get_artifact_by_id(artifact_data, last'.artifact_id)
         IN /\ get_artifact_by_id(artifact_data', last'.artifact_id)
                  = [a EXCEPT !.level = a.level + 1]
            /\ \A b \in Range(artifact_data) \ {a} :
                  b \in Range(artifact_data')
            /\ Len(artifact_data') = Len(artifact_data)
            /\ upgrade_items' = upgrade_items - 2 * a.level
            /\ coins' = coins - 100 * a.level
            /\ re_roll_items' = re_roll_items]_vars

\* artifact 2 went from level 3 to level 4 for 6 items and 300 coins
C10_Witness ==
    /\ ops = 1
    /\ last.op = "enhance"
    /\ last.success
    /\ last.artifact_id = 2
    /\ get_artifact_by_id(artifact_data, 2).level = 4
    /\ upgrade_items = 10 - 6
    /\ coins = 350 - 300


\* C11: a failed enhancement changes nothing; an absent id fails as NotFound,
\* a balance below 100 * L never passes, and the only failures are NotFound,
\* InsufficientItems and InsufficientFunds (an unknown user is shown 0 coins)
C11_EnhanceFailsUnchanged ==
    [][(last'.op = "enhance") =>
         /\ ~last'.success =>
               /\ artifact_data' = artifact_data
               /\ upgrade_items' = upgrade_items
               /\ coins' = coins
               /\ re_roll_items' = re_roll_items
               /\ last'.msg \in {"NotFound", "InsufficientItems",
                                 "InsufficientFunds"}
         /\ last'.artifact_id \notin Ids(artifact_data) =>
               ~last'.success /\ last'.msg = "NotFound"
         /\ (/\ last'.artifact_id \in Ids(artifact_data)
             /\ coins < 100 * get_artifact_by_id(artifact_data,
                                                 last'.artifact_id).level) =>
               /\ ~last'.success
               /\ last'.msg \in {"InsufficientItems", "InsufficientFunds"}
         /\ (/\ last'.artifact_id \in Ids(artifact_data)
             /\ last'.msg = "InsufficientItems") =>
               /\ ~last'.success
               /\ last'.amount = 2 * get_artifact_by_id(artifact_data,
                                         last'.artifact_id).level]_vars

\* the enhancement of the level-3 artifact 2 was refused for lack of coins
\* after a draw had left 250 of them
C11_Witness ==
    /\ ops = 2
    /\ last.op = "enhance"
    /\ ~last.success
    /\ last.msg = "InsufficientFunds"
    /\ last.artifact_id = 2
    /\ last.amount = 250
    /\ coins = 250
    /\ get_artifact_by_id(artifact_data, 2).level = 3

\* C12: a draw with fewer than 100 coins fails and changes no ledger and no
\* artifact
C12_DrawInsufficient ==
    [][(last'.op = "draw" /\ coins < 100) =>
         /\ ~last'.success
         /\ coins' = coins
         /\ re_roll_items' = re_roll_items
         /\ upgrade_items' = upgrade_items
         /\ artifact_data' = artifact_data]_vars

\* a draw was refused at 50 coins
C12_Witness ==
    /\ last.op = "draw"
    /\ ~last.success
    /\ last.msg = "InsufficientFunds"
    /\ coins = 50

\* the effect of a roll outside the artifact bucket
C13_OtherBuckets ==
    /\ last'.roll \in 6..15 =>
          /\ last'.msg = "ReRollItem"
          /\ re_roll_items' = re_roll_items + 1
          /\ coins' = coins - 100
          /\ upgrade_items' = upgrade_items
          /\ artifact_data' = artifact_data
    /\ last'.roll \in 16..35 =>
          /\ last'.msg = "UpgradeItems"
          /\ upgrade_items' - upgrade_items \in 1..3
          /\ coins' = coins - 100
          /\ re_roll_items' = re_roll_items
          /\ artifact_data' = artifact_data
    /\ last'.roll \in 36..100 =>
          /\ last'.msg = "Coins"
          /\ coins' - (coins - 100) \in 1..120
          /\ upgrade_items' = upgrade_items
          /\ re_roll_items' = re_roll_items
          /\ artifact_data' = artifact_data

\* C13 as stated: a draw that passes the funds check has one outcome, fixed
\* by the roll: 1..5 an artifact, 6..15 one reroll item, 16..35 one to three
\* enhancement items, 36..100 one to 120 coins; apart from the 100-coin debit
\* no outcome changes a ledger other than its own
C13_RollOutcomeStrict ==
    [][(last'.op = "draw" /\ last'.success) =>
         /\ last'.roll \in 1..100
         /\ last'.roll \in 1..5 =>
               /\ last'.msg = "ArtifactFound"
               /\ last'.artifact_id \notin Ids(artifact_data)
               /\ coins' = coins - 100
               /\ re_roll_items' = re_roll_items
               /\ upgrade_items' = upgrade_items
         /\ C13_OtherBuckets]_vars

\* C13 amended: as stated, except that an artifact outcome on a full
\* collection whose artifacts are all locked credits the yield of the new
\* artifact to the enhancement-item ledger
C13_RollOutcome ==
    [][(last'.op = "draw" /\ last'.success) =>
         /\ last'.roll \in 1..100
         /\ last'.roll \in 1..5 =>
               /\ last'.msg = "ArtifactFound"
               /\ last'.artifact_id \notin Ids(artifact_data)
               /\ coins' = coins - 100
               /\ re_roll_items' = re_roll_items
               /\ upgrade_items' = upgrade_items
                    + (IF Len(artifact_data) = 20
                          /\ Unlocked(artifact_data) = {}
                       THEN get_reinforcement_items_from_disassembly(
                               Artifact(last'.artifact_id, last'.rarity))
                       ELSE 0)
         /\ C13_OtherBuckets]_vars

\* roll 5, the last of the artifact bucket, on a full collection that is all
\* locked: the new Common artifact was not stored and its yield was credited
C13_Witness ==
    /\ last.op = "draw"
    /\ last.success
    /\ last.roll = 5
    /\ last.msg = "ArtifactFound"
    /\ last.rarity = "Common"
    /\ last.artifact_id \notin Ids(artifact_data)
    /\ Len(artifact_data) = 20
    /\ upgrade_items = 11
    /\ coins = 50

DocumentedRolls(msg) ==
    CASE msg = "ArtifactFound" -> 2
      [] msg = "ReRollItem" -> 8
      [] msg = "UpgradeItems" -> 20
      [] msg = "Coins" -> 70

\* C14: the outcome of a draw is the outcome of as many of the 100 roll
\* values as the documentation states: 2 for an artifact, 8 for a reroll
\* item, 20 for enhancement items, 70 for coins
C14_DocumentedOdds ==
    (last.op = "draw" /\ last.success) =>
        Cardinality({r \in 1..100 : draw_bucket(r) = last.msg})
            = DocumentedRolls(last.msg)

\* C15: a draw that passes the funds check takes exactly 100 coins, the
\* balance after the debit is not negative, and a coin outcome leaves
\* old - 100 + reward with reward in 1..120 (51..170 from 150 coins)
C15_DrawDebit ==
    [][(last'.op = "draw" /\ last'.success) =>
         /\ coins - 100 >= 0
         /\ coins' >= 0
         /\ last'.msg # "Coins" => coins' = coins - 100
         /\ last'.msg = "Coins" =>
               /\ last'.amount \in 1..120
               /\ coins' = coins - 100 + last'.amount
               /\ coins = 150 => coins' \in 51..170]_vars

\* 150 coins, a coin outcome of 120: 170 coins
C15_Witness ==
    /\ last.op = "draw"
    /\ last.success
    /\ last.msg = "Coins"
    /\ last.amount = 120
    /\ coins = 170

\* the stock command executed by the step
Call == trades'[Len(trades')]

Traded == Len(trades') = Len(trades) + 1

\* the trade that was executed last
LastTrade == trades[Len(trades)]

\* total is an integer nearest to price * quantity (price in hundredths) and
\* f is the least integer that is at least 1 and at least 5% of total
PriceAndFee(price, quantity, total, f) ==
    /\ 2 * abs(100 * total - price * quantity) <= 100
    /\ f >= 1
    /\ 20 * f >= total
    /\ f > 1 => 20 * (f - 1) < total

\* the records of every user but uid are what they were
OthersUnchanged(uid) ==
    /\ DOMAIN boom_data' \ {uid} = DOMAIN boom_data \ {uid}
    /\ \A u \in DOMAIN boom_data \ {uid} : boom_data'[u] = boom_data[u]

\* C16: a buy of quantity > 0 of a listed symbol prices the order at
\* round(price * quantity) plus a fee of max(1, ceil(5%)); with a balance
\* below price + fee it fails and leaves balance, holdings and weight alone,
\* otherwise the balance falls by price + fee and the holding grows by
\* quantity, created when absent
C16_BuyStock ==
    [][(Traded /\ Call.op = "buy" /\ Call.quantity > 0
        /\ Call.symbol \in DOMAIN stock_data) =>
         LET uid == Call.uid
             symbol == Call.symbol
             cost == Call.total_price + Call.fee
         IN /\ PriceAndFee(stock_data[symbol].price, Call.quantity,
                           Call.total_price, Call.fee)
            /\ IF get_gold(boom_data, uid) < cost
               THEN /\ ~Call.success
                    /\ boom_data' = boom_data
                    /\ stock_data' = stock_data
               ELSE /\ Call.success
                    /\ get_gold(boom_data', uid)
                          = get_gold(boom_data, uid) - cost
                    /\ symbol \in DOMAIN boom_data'[uid].stocks
                    /\ boom_data'[uid].stocks[symbol]
                          = owned_quantity(boom_data, uid, symbol)
                            + Call.quantity]_vars

\* u1 with 250 gold bought 1 share of BBB at 1.75, which it did not hold:
\* price 2, fee 1
C16_Witness ==
    /\ trades # <<>>
    /\ LastTrade.op = "buy"
    /\ LastTrade.success
    /\ LastTrade.symbol = "BBB"
    /\ LastTrade.quantity = 1
    /\ LastTrade.total_price = 2
    /\ LastTrade.fee = 1
    /\ LastTrade.gold = 250
    /\ "BBB" \notin DOMAIN LastTrade.stocks
    /\ boom_data["u1"].gold = 247
    /\ boom_data["u1"].stocks["BBB"] = 1

\* C17: a sale of more shares than the caller holds, no holding included,
\* fails and leaves the balance, every holding and the weight alone
C17_SellExceedsHolding ==
    [][(Traded /\ Call.op = "sell"
        /\ Call.quantity
              > owned_quantity(boom_data, Call.uid, Call.symbol)) =>
         /\ ~Call.success
         /\ boom_data' = boom_data
         /\ stock_data' = stock_data]_vars

\* u1 holds 2 shares of AAA and was refused the sale of 10
C17_Witness ==
    /\ trades # <<>>
    /\ LastTrade.op = "sell"
    /\ ~LastTrade.success
    /\ LastTrade.msg = "InsufficientHoldings"
    /\ LastTrade.uid = "u1"
    /\ LastTrade.symbol = "AAA"
    /\ LastTrade.quantity = 10
    /\ boom_data["u1"].stocks["AAA"] = 2

\* C18: a sale whose fee is at least its proceeds fails and leaves balance,
\* holdings and weight alone; a sale that succeeds credits a positive amount
C18_FeeExceedsProceeds ==
    [][(Traded /\ Call.op = "sell" /\ Call.quantity > 0
        /\ Call.symbol \in DOMAIN stock_data) =>
         LET total == total_price(stock_data[Call.symbol].price,
                                  Call.quantity)
         IN /\ fee(total) >= total =>
                  /\ ~Call.success
                  /\ boom_data' = boom_data
                  /\ stock_data' = stock_data
            /\ Call.success =>
                  /\ Call.total_price - Call.fee > 0
                  /\ get_gold(boom_data', Call.uid)
                        > get_gold(boom_data, Call.uid)]_vars

\* u1 holds 2 shares of AAA at 1.00 and was refused the sale of 1: proceeds
\* 1, fee 1
C18_Witness ==
    /\ trades # <<>>
    /\ LastTrade.op = "sell"
    /\ ~LastTrade.success
    /\ LastTrade.msg = "FeeExceedsProceeds"
    /\ LastTrade.quantity = 1
    /\ LastTrade.total_price = 1
    /\ LastTrade.fee = 1
    /\ boom_data["u1"].stocks["AAA"] = 2
    /\ boom_data["u1"].gold = LastTrade.gold

\* C19: a sale that succeeds raises the balance by proceeds - fee, lowers
\* the holding by the quantity sold and leaves the caller's other holdings
\* and the other users' records alone
C19_SellStock ==
    [][(Traded /\ Call.op = "sell" /\ Call.success) =>
         LET uid == Call.uid
             symbol == Call.symbol
         IN /\ PriceAndFee(stock_data[symbol].price, Call.quantity,
                           Call.total_price, Call.fee)
            /\ get_gold(boom_data', uid)
                  = get_gold(boom_data, uid)
                    + (Call.total_price - Call.fee)
            /\ owned_quantity(boom_data', uid, symbol)
                  = owned_quantity(boom_data, uid, symbol) - Call.quantity
            /\ DOMAIN boom_data'[uid].stocks \ {symbol}
                  = DOMAIN boom_data[uid].stocks \ {symbol}
            /\ \A s \in DOMAIN boom_data[uid].stocks \ {symbol} :
                  boom_data'[uid].stocks[s] = boom_data[uid].stocks[s]
            /\ OthersUnchanged(uid)]_vars

\* u1 with 10 gold sold its 2 shares of AAA at 10.00: proceeds 20, fee 1; the
\* other user's record is as it began
C19_Witness ==
    /\ trades # <<>>
    /\ LastTrade.op = "sell"
    /\ LastTrade.success
    /\ LastTrade.quantity = 2
    /\ LastTrade.total_price = 20
    /\ LastTrade.fee = 1
    /\ LastTrade.gold = 10
    /\ boom_data["u1"].gold = 29
    /\ "AAA" \notin DOMAIN boom_data["u1"].stocks
    /\ boom_data["u2"].gold = 50
    /\ boom_data["u2"].stocks["AAA"] = 3

\* C20: a buy that succeeds, followed at once by the sale of the same
\* quantity of the same symbol at the same price, leaves the balance below
\* the balance before the buy; when the sale succeeds too, the loss is the
\* two fees and the holdings are those before the buy
C20_RoundTrip ==
    [][(Traded /\ trades # <<>>
        /\ LastTrade.op = "buy" /\ LastTrade.success
        /\ Call.op = "sell"
        /\ Call.uid = LastTrade.uid
        /\ Call.symbol = LastTrade.symbol
        /\ Call.quantity = LastTrade.quantity
        /\ stock_data[Call.symbol].price = LastTrade.price) =>
         /\ get_gold(boom_data', Call.uid) < LastTrade.gold
         /\ Call.success =>
               /\ get_gold(boom_data', Call.uid)
                     = LastTrade.gold - (LastTrade.fee + Call.fee)
               /\ boom_data'[Call.uid].stocks = LastTrade.stocks]_vars

\* u1 with 250 gold bought 10 shares of AAA at 10.00 and sold them again:
\* two fees of 5
C20_Witness ==
    /\ Len(trades) = 2
    /\ trades[1].op = "buy" /\ trades[1].success
    /\ trades[2].op = "sell" /\ trades[2].success
    /\ trades[1].symbol = "AAA" /\ trades[2].symbol = "AAA"
    /\ trades[1].quantity = 10 /\ trades[2].quantity = 10
    /\ trades[1].fee = 5 /\ trades[2].fee = 5
    /\ trades[1].gold = 250
    /\ boom_data["u1"].gold = 240
    /\ boom_data["u1"].stocks["AAA"] = 2

\* C21: after any sequence of successful buys and sells the weight of every
\* symbol is within [-0.2, +0.2]
C21_WeightClamped ==
    \A symbol \in DOMAIN stock_data :
       stock_data[symbol].weight \in -20..20

HoldingsPositive ==
    \A uid \in DOMAIN boom_data :
       \A symbol \in DOMAIN boom_data[uid].stocks :
          boom_data[uid].stocks[symbol] >= 1

\* a holding record appears only in a successful buy of its symbol and goes
\* only in a successful sale of all its shares
HoldingStep ==
    \A uid \in DOMAIN boom_data' :
       LET before == IF uid \in DOMAIN boom_data
                     THEN DOMAIN boom_data[uid].stocks ELSE {}
           after == DOMAIN boom_data'[uid].stocks
       IN /\ \A symbol \in after \ before :
                /\ Traded /\ Call.success /\ Call.op = "buy"
                /\ Call.uid = uid /\ Call.symbol = symbol
                /\ boom_data'[uid].stocks[symbol] = Call.quantity
          /\ \A symbol \in before \ after :
                /\ Traded /\ Call.success /\ Call.op = "sell"
                /\ Call.uid = uid /\ Call.symbol = symbol
                /\ boom_data[uid].stocks[symbol] = Call.quantity
          /\ \A symbol \in before \cap after :
                boom_data'[uid].stocks[symbol] >= 1

\* C23: in every state reached by buys and sells each holding record has at
\* least one share: the first buy of a symbol creates it, the sale that
\* brings it to zero removes it, and it is never negative
C23_Holdings == HoldingsPositive /\ [][HoldingStep]_vars

\* u1 bought 1 share of BBB, which it did not hold, and sold it again: the
\* record is gone
C23_Witness ==
    /\ Len(trades) = 2
    /\ trades[1].op = "buy" /\ trades[1].success
    /\ trades[2].op = "sell" /\ trades[2].success
    /\ trades[1].symbol = "BBB" /\ trades[2].symbol = "BBB"
    /\ trades[1].quantity = 1 /\ trades[2].quantity = 1
    /\ "BBB" \notin DOMAIN trades[1].stocks
    /\ "BBB" \in DOMAIN trades[2].stocks
    /\ "BBB" \notin DOMAIN boom_data["u1"].stocks

\* C24: lock sets and unlock clears is_locked of an existing artifact,
\* whatever the flag was, and returns true; on an absent id both return false
\* and change nothing; they touch no other artifact, no other field and no
\* ledger, and the same call made twice leaves what one call left
C24_LockIdempotent ==
    [][(ops' = ops + 1 /\ last'.op \in {"lock", "unlock"}) =>
         LET id == last'.artifact_id
         IN /\ UNCHANGED <<coins, upgrade_items, re_roll_items>>
            /\ last'.success = (id \in Ids(artifact_data))
            /\ Len(artifact_data') = Len(artifact_data)
            /\ \A i \in 1..Len(artifact_data) :
                  IF artifact_data[i].artifact_id = id
                  THEN artifact_data'[i] =
                          [artifact_data[i] EXCEPT
                              !.is_locked = (last'.op = "lock")]
                  ELSE artifact_data'[i] = artifact_data[i]
            /\ (last.op = last'.op /\ last.artifact_id = id) =>
                  artifact_data' = artifact_data]_vars

\* artifact 2 was locked a second time: every artifact is still locked
C24_Witness ==
    /\ ops = 2
    /\ last.op = "lock"
    /\ last.success
    /\ last.artifact_id = 2
    /\ Len(artifact_data) = 20
    /\ \A i \in 1..20 : artifact_data[i].is_locked
    /\ Ids(artifact_data) = 1..20
    /\ coins = 350
    /\ upgrade_items = 10

\* C25: the id of a generated artifact is in 1..99999 and is not a key of
\* the collection when it is generated; the insert overwrites no stored
\* artifact and the ids of the collection stay pairwise distinct
C25_FreshId ==
    [][(ops' = ops + 1
        /\ \/ last'.op = "generate"
           \/ last'.op = "draw" /\ last'.msg = "ArtifactFound") =>
         /\ last'.artifact_id \in 1..99999
         /\ last'.artifact_id \notin Ids(artifact_data)
         /\ \A i \in 1..Len(artifact_data') :
               artifact_data'[i].artifact_id \in Ids(artifact_data) =>
                  artifact_data'[i] =
                     get_artifact_by_id(artifact_data,
                                        artifact_data'[i].artifact_id)
         /\ Cardinality(Ids(artifact_data')) = Len(artifact_data')]_vars

\* artifact 20 was generated into a collection of 19 and stored beside them
C25_Witness ==
    /\ ops = 1
    /\ last.op = "generate"
    /\ last.artifact_id = 20
    /\ Len(artifact_data) = 20
    /\ Ids(artifact_data) = 1..20
    /\ artifact_data[20].artifact_id = 20
    /\ artifact_data[20].level = 1

\* every stored artifact has level 1 or more
LevelsPositive ==
    \A i \in 1..Len(artifact_data) : artifact_data[i].level >= 1

\* an artifact that enters the collection has level 1; a stored artifact
\* keeps its level, or gains one level in a successful enhancement of it
LevelStep ==
    \A i \in 1..Len(artifact_data') :
       LET new == artifact_data'[i]
           old == get_artifact_by_id(artifact_data, new.artifact_id)
       IN IF new.artifact_id \in Ids(artifact_data)
          THEN \/ new.level = old.level
               \/ /\ new.level = old.level + 1
                  /\ last'.op = "enhance"
                  /\ last'.success
                  /\ last'.artifact_id = new.artifact_id
          ELSE new.level = 1

\* C26: an artifact is created at level 1, its level is always at least 1
\* and never falls, and it changes only by +1 in a successful enhancement
C26_Levels == LevelsPositive /\ [][LevelStep]_vars

\* artifact 21 was generated at level 1, then artifact 2 was enhanced from
\* level 3 to level 4
C26_Witness ==
    /\ ops = 2
    /\ last.op = "enhance"
    /\ last.success
    /\ last.artifact_id = 2
    /\ get_artifact_by_id(artifact_data, 2).level = 4
    /\ 21 \in Ids(artifact_data)
    /\ get_artifact_by_id(artifact_data, 21).level = 1

\* C27: whatever the interleaving of the load, operate and save steps of two
\* persons, the collection saved for a person is the result of that person's
\* operation on that person's own file, and holds no artifact of the other
C27_UsersIndependent ==
    [][\A person \in Persons :
         (session[person].pc = "operated"
          /\ session'[person].pc = "saved") =>
            files'[person] =
               ApplyOperation(session[person].op, files[person])]_vars

\* the weight change of a successful trade of quantity shares at weight w
WeightChange(op, quantity, w) ==
    LET units == quantity \div required_per_unit(w)
    IN IF op = "buy" THEN -units ELSE units

C29_GoldNonNegative ==
    \A uid \in DOMAIN boom_data : boom_data[uid].gold \in Nat

\* u1 staked its 10 gold in a gold bomb and got nothing back
C29_Witness ==
    /\ trades # <<>>
    /\ LastTrade.op = "boom"
    /\ LastTrade.success
    /\ LastTrade.uid = "u1"
    /\ LastTrade.quantity = 10
    /\ LastTrade.total_price = 0
    /\ LastTrade.gold = 10
    /\ boom_data["u1"].gold = 0

C31_KeepsRunning ==
    /\ [](job.pc = "done" => job.cancel)
    /\ ((job.pc = "sleep" /\ job.result = "raised") ~> job.pc = "loop")
    /\ (job.pc = "sleep" ~> job.pc = "loop")
    /\ (job.pc = "loop" ~> (job.pc = "sleep" \/ job.cancel))

\* the scheduled function was invoked again after an invocation that raised
C31_Witness ==
    /\ job.pc = "sleep"
    /\ job.after_failure
    /\ ~job.cancel

\* uid checked in successfully on the current date, by the log of commands
CheckedInToday(uid) ==
    \E i \in 1..Len(trades) :
       /\ trades[i].op = "checkin"
       /\ trades[i].uid = uid
       /\ trades[i].success
       /\ trades[i].date = today

\* C32: a check-in of a registered user fails when the user already checked
\* in successfully on that date, and a failed check-in leaves the record as
\* it was; a successful one sets last_checkin to the date, streak to the
\* previous streak + 1 when the last check-in was the day before and to 1
\* otherwise, and adds streak + r gold with r in 0..20
C32_CheckInOncePerDay ==
    [][(Traded /\ Call.op = "checkin" /\ Call.uid \in DOMAIN boom_data)
       => LET uid == Call.uid
              before == boom_data[uid]
              after == boom_data'[uid]
              streak == IF before.last_checkin = today - 1
                           /\ before.last_checkin # None
                        THEN before.streak + 1
                        ELSE 1
          IN /\ CheckedInToday(uid) => ~Call.success
             /\ ~Call.success => after = before
             /\ Call.success =>
                  /\ after.last_checkin = today
                  /\ after.streak = streak
                  /\ after.gold - before.gold - streak \in 0..20
                  /\ after.stocks = before.stocks
             /\ OthersUnchanged(uid)]_vars

\* C33: a gold bomb of a registered user with coins >= amount > 0 succeeds
\* and leaves coins - amount, coins or coins + amount; with coins < amount it
\* fails and leaves the coins as they were
C33_GoldBoom ==
    [][\A userId \in RegisteredUsers, amount \in GoldBoomAmounts,
          multiplier \in Multipliers :
          GoldBoom(userId, amount, multiplier)
          => /\ (amount > 0 /\ coins >= amount)
                  => /\ last'.success
                     /\ coins' \in {coins - amount, coins, coins + amount}
             /\ coins < amount
                  => /\ ~last'.success
                     /\ coins' = coins]_vars

====
